---- MODULE Spec2Model ----
(***************************************************************************)
(* A model of the `mbucket raw` command (lib/mbucket/do_raw.js): the       *)
(* callback chain do_raw -> onSignRequest -> onRequest -> 'result' ->      *)
(* 'data'* -> 'end', with everything it prints and every call it makes on  *)
(* the signer, the HTTP client and the completion callback.                *)
(*                                                                         *)
(* Text is a sequence of one-character strings, so that indexOf, substr,   *)
(* trimLeft, split, util.format and JSON.stringify are computed character  *)
(* by character.  A JavaScript value is a record tagged by its type.       *)
(***************************************************************************)
EXTENDS Integers, Sequences, FiniteSets, TLC

(***************************************************************************)
(* Bounds of the model.                                                    *)
(***************************************************************************)
MaxHeaderFlags == 2
MaxChunks == 2
MaxInfoArgs == 2

(***************************************************************************)
(* JavaScript values.                                                      *)
(***************************************************************************)
Undefined == [t |-> "undefined"]
JSNull == [t |-> "null"]
Str(s) == [t |-> "string", v |-> s]
Obj(pairs) == [t |-> "object", v |-> pairs]
Buf(bytes) == [t |-> "buffer", v |-> bytes]

\* ToBoolean: undefined, null and the empty string are falsy.
Truthy(x) ==
    CASE x.t = "undefined" -> FALSE
      [] x.t = "null" -> FALSE
      [] x.t = "string" -> x.v # <<>>
      [] OTHER -> TRUE

\* typeof: null, plain objects and Buffers are all 'object'.
TypeOf(x) ==
    CASE x.t = "undefined" -> "undefined"
      [] x.t = "string" -> "string"
      [] OTHER -> "object"

(***************************************************************************)
(* Text helpers.                                                           *)
(***************************************************************************)
RECURSIVE IndexFrom(_, _, _)
IndexFrom(s, c, i) ==
    IF i > Len(s) THEN -1
    ELSE IF s[i] = c THEN i - 1
    ELSE IndexFrom(s, c, i + 1)

\* String.prototype.indexOf for a one-character needle: 0-based, -1 if absent.
IndexOf(s, c) == IndexFrom(s, c, 1)

\* String.prototype.substr(start, length) and substr(start), 0-based start.
Substr(s, start, length) == SubSeq(s, start + 1, start + length)
SubstrFrom(s, start) == SubSeq(s, start + 1, Len(s))

WhiteSpace == {" ", "\t", "\n", "\r"}

RECURSIVE TrimLeft(_)
TrimLeft(s) ==
    IF s # <<>> /\ Head(s) \in WhiteSpace THEN TrimLeft(Tail(s)) ELSE s

\* String.prototype.split(/\n/g): always at least one piece.
RECURSIVE SplitLines(_)
SplitLines(s) ==
    LET j == IndexOf(s, "\n")
    IN  IF j < 0 THEN <<s>>
        ELSE <<Substr(s, 0, j)>> \o SplitLines(SubstrFrom(s, j + 1))

Digits == <<"0", "1", "2", "3", "4", "5", "6", "7", "8", "9">>

\* Number -> decimal text (util.format's %d, JSON.stringify of a number).
RECURSIVE DecStr(_)
DecStr(n) ==
    IF n < 10 THEN <<Digits[n + 1]>>
    ELSE DecStr(n \div 10) \o <<Digits[(n % 10) + 1]>>

IsDigit(c) == \E d \in 1..10 : Digits[d] = c
DigitVal(c) == (CHOOSE d \in 1..10 : Digits[d] = c) - 1

RECURSIVE NumVal(_)
NumVal(s) ==
    IF s = <<>> THEN 0
    ELSE NumVal(SubSeq(s, 1, Len(s) - 1)) * 10 + DigitVal(s[Len(s)])

(***************************************************************************)
(* JavaScript objects as ordered mappings: a sequence of <<key, value>>    *)
(* pairs with distinct keys, in insertion order.                           *)
(***************************************************************************)
ObjHas(o, k) == \E i \in 1..Len(o) : o[i][1] = k
ObjGet(o, k) == o[CHOOSE i \in 1..Len(o) : o[i][1] = k][2]

\* o[k] = v: an existing key keeps its place, a new key goes last.
ObjSet(o, k, v) ==
    IF ObjHas(o, k)
    THEN [i \in 1..Len(o) |-> IF o[i][1] = k THEN <<k, v>> ELSE o[i]]
    ELSE Append(o, <<k, v>>)

\* A key that is a canonical array index ("0", "7", "12", not "01").
IsArrayIndex(k) ==
    /\ k # <<>>
    /\ \A i \in 1..Len(k) : IsDigit(k[i])
    /\ (Len(k) = 1 \/ k[1] # "0")

RECURSIVE SortKeys(_)
SortKeys(ks) ==
    IF ks = <<>> THEN <<>>
    ELSE LET m == CHOOSE i \in 1..Len(ks) :
                    \A j \in 1..Len(ks) : NumVal(ks[i]) <= NumVal(ks[j])
         IN  <<ks[m]>> \o
             SortKeys(SubSeq(ks, 1, m - 1) \o SubSeq(ks, m + 1, Len(ks)))

InsertionKeys(o) == [i \in 1..Len(o) |-> o[i][1]]

\* Object.keys: array-index keys first, ascending; then the other keys in
\* insertion order.
ObjectKeys(o) ==
    SortKeys(SelectSeq(InsertionKeys(o), IsArrayIndex)) \o
    SelectSeq(InsertionKeys(o), LAMBDA k : ~IsArrayIndex(k))

(***************************************************************************)
(* Text constants.                                                         *)
(***************************************************************************)
TXT_undefined ==
    <<"u", "n", "d", "e", "f", "i", "n", "e", "d">>
TXT_bufferJsonHead ==
    <<"{", "\"", "t", "y", "p", "e", "\"", ":", "\"", "B", "u", "f", "f", "e", "r", "\"", ",", "\"", "d", "a", "t", "a", "\"", ":", "[">>
TXT_alphabet ==
    <<"a", "b", "c", "d", "e", "f", "g", "h", "i", "j", "k", "l", "m", "n", "o", "p", "q", "r", "s", "t", "u", "v", "w", "x", "y", "z">>
TXT_OK ==
    <<"O", "K">>
TXT_NotFound ==
    <<"N", "o", "t", " ", "F", "o", "u", "n", "d">>
GET ==
    <<"G", "E", "T">>
PUT ==
    <<"P", "U", "T">>
POST ==
    <<"P", "O", "S", "T">>
HEAD ==
    <<"H", "E", "A", "D">>
OPTIONS ==
    <<"O", "P", "T", "I", "O", "N", "S">>
DELETE ==
    <<"D", "E", "L", "E", "T", "E">>
TXT_get ==
    <<"g", "e", "t">>
TXT_put ==
    <<"p", "u", "t">>
TXT_post ==
    <<"p", "o", "s", "t">>
TXT_head ==
    <<"h", "e", "a", "d">>
TXT_opts ==
    <<"o", "p", "t", "s">>
TXT_del ==
    <<"d", "e", "l">>
TXT_constructor ==
    <<"c", "o", "n", "s", "t", "r", "u", "c", "t", "o", "r">>
TXT_toString ==
    <<"t", "o", "S", "t", "r", "i", "n", "g">>
TXT_invalidArguments ==
    <<"i", "n", "v", "a", "l", "i", "d", " ", "a", "r", "g", "u", "m", "e", "n", "t", "s">>
TXT_unknownMethodHead ==
    <<"u", "n", "k", "n", "o", "w", "n", " ", "H", "T", "T", "P", " ", "m", "e", "t", "h", "o", "d", ":", " ", "\"">>
TXT_failedHeaderHead ==
    <<"f", "a", "i", "l", "e", "d", " ", "t", "o", " ", "p", "a", "r", "s", "e", " ", "h", "e", "a", "d", "e", "r", ":", " ", "\"">>
TXT_hostAssertHead ==
    <<"g", "i", "v", "e", "n", " ", "P", "A", "T", "H", " ", "s", "h", "o", "u", "l", "d", " ", "n", "o", "t", " ", "h", "a", "v", "e", " ", "a", " ", "h", "o", "s", "t", ":", " ">>
TXT_portAssertHead ==
    <<"g", "i", "v", "e", "n", " ", "P", "A", "T", "H", " ", "s", "h", "o", "u", "l", "d", " ", "n", "o", "t", " ", "h", "a", "v", "e", " ", "a", " ", "p", "o", "r", "t", ":", " ">>
TXT_HTTP ==
    <<"H", "T", "T", "P", "/">>
TXT_HTTP11 ==
    <<"H", "T", "T", "P", "/", "1", ".", "1">>
TXT_authorization ==
    <<"a", "u", "t", "h", "o", "r", "i", "z", "a", "t", "i", "o", "n">>
TXT_signature ==
    <<"S", "i", "g", "n", "a", "t", "u", "r", "e", " ", "k">>
TXT_tilde ==
    <<"~", "~">>
TXT_account ==
    <<"/", "a", "c", "c", "t">>
TXT_version ==
    <<"1", ".", "1">>
TXT_code ==
    <<"c", "o", "d", "e">>
TXT_ResNotFound ==
    <<"N", "o", "t", "F", "o", "u", "n", "d">>
ARG_path ==
    <<"/", "b">>
ARG_query ==
    <<"~", "~", "/", "b", "?", "l", "=", "2">>
ARG_url ==
    <<"h", "t", "t", "p", ":", "/", "/", "h", ":", "8", "0", "/", "b">>
ARG_other ==
    <<"/", "c">>
FLAG_ax ==
    <<"a", ":", " ", "x">>
FLAG_ayz ==
    <<"a", ":", "y", ":", "z">>
FLAG_1y ==
    <<"1", ":", "y">>
FLAG_b ==
    <<"b">>
DATA_lines ==
    <<"a", "\n", "b">>
METHOD_lower ==
    <<"g", "e", "t">>
BODY_text ==
    <<"n", "o", "\n">>
HDR_a ==
    <<"a">>
HDR_b ==
    <<"b">>
HDR_1 ==
    <<"1">>
VAL_x ==
    <<"x">>
VAL_y ==
    <<"y">>
VAL_z ==
    <<"z">>
TXT_NotFoundJsonLine ==
    <<"{", "\"", "c", "o", "d", "e", "\"", ":", "\"", "N", "o", "t", "F", "o", "u", "n", "d", "\"", "}", "\n">>
TXT_line200 ==
    <<"H", "T", "T", "P", "/", "1", ".", "1", " ", "2", "0", "0", " ", "O", "K", "\n">>
TXT_lineAX ==
    <<"a", ":", " ", "x", "\n">>
TXT_reqLineGetB ==
    <<">", " ", "G", "E", "T", " ", "/", "b", " ", "H", "T", "T", "P", "/", "1", ".", "1", "\n">>
TXT_manta ==
    <<"m", "a", "n", "t", "a">>
TXT_incorrectArgs ==
    <<"i", "n", "c", "o", "r", "r", "e", "c", "t", " ", "n", "u", "m", "b", "e", "r", " ", "o", "f", " ", "a", "r", "g", "s">>
TXT_invalidUri ==
    <<"i", "n", "v", "a", "l", "i", "d", " ", "m", "a", "n", "t", "a", " ", "U", "R", "I">>
URI_bucket ==
    <<"m", "a", "n", "t", "a", ":", "b">>
URI_object ==
    <<"m", "a", "n", "t", "a", ":", "b", "/", "o">>
URI_nested ==
    <<"m", "a", "n", "t", "a", ":", "c", "/", "p", "/", "q">>
URI_slash ==
    <<"m", "a", "n", "t", "a", ":", "b", "/">>
URI_bad ==
    <<"b", "/", "o">>

(***************************************************************************)
(* util.format, console.log, JSON.stringify, Buffer.toString('utf8').      *)
(***************************************************************************)
\* util.format('%s', x) of a string or of undefined.
FmtS(x) == IF x.t = "undefined" THEN TXT_undefined ELSE x.v

RECURSIVE Join(_, _)
Join(ss, sep) ==
    IF ss = <<>> THEN <<>>
    ELSE IF Len(ss) = 1 THEN ss[1]
    ELSE ss[1] \o sep \o Join(Tail(ss), sep)

RECURSIVE Concat(_)
Concat(ss) == IF ss = <<>> THEN <<>> ELSE Head(ss) \o Concat(Tail(ss))

\* console.log(a, b, ...): the arguments separated by one space, then "\n".
ConsoleLog(parts) == Join(parts, <<" ">>) \o <<"\n">>

Quoted(s) == <<"\"">> \o s \o <<"\"">>

\* JSON.stringify of a plain object with string members (own keys in
\* Object.keys order, no whitespace) and of a Buffer (its toJSON form).
JSONStringify(x) ==
    CASE x.t = "object" ->
           <<"{">> \o
           Join([i \in 1..Len(ObjectKeys(x.v)) |->
                    Quoted(ObjectKeys(x.v)[i]) \o <<":">> \o
                    Quoted(ObjGet(x.v, ObjectKeys(x.v)[i]).v)],
                <<",">>) \o
           <<"}">>
      [] x.t = "buffer" ->
           TXT_bufferJsonHead \o
           Join([i \in 1..Len(x.v) |-> DecStr(x.v[i])], <<",">>) \o
           <<"]", "}">>
      [] x.t = "string" -> Quoted(x.v)
      [] OTHER -> TXT_undefined

Letters == TXT_alphabet

\* The character of a code point: ASCII lower-case letters, and a token
\* for a code point outside ASCII.
CharOf(cp) ==
    CASE cp >= 97 /\ cp <= 122 -> Letters[cp - 96]
      [] cp = 233 -> "U+00E9"
      [] cp = 65533 -> "U+FFFD"
      [] OTHER -> "U+????"

\* Buffer.prototype.toString('utf8') for one- and two-byte sequences: a
\* lead byte without its continuation byte, or a stray continuation byte,
\* decodes to U+FFFD.
RECURSIVE Utf8ToString(_)
Utf8ToString(bs) ==
    IF bs = <<>> THEN <<>>
    ELSE IF bs[1] < 128 THEN <<CharOf(bs[1])>> \o Utf8ToString(Tail(bs))
    ELSE IF /\ bs[1] >= 194 /\ bs[1] <= 223
            /\ Len(bs) >= 2 /\ bs[2] >= 128 /\ bs[2] <= 191
         THEN <<CharOf((bs[1] - 192) * 64 + (bs[2] - 128))>> \o
              Utf8ToString(SubSeq(bs, 3, Len(bs)))
    ELSE <<CharOf(65533)>> \o Utf8ToString(Tail(bs))

\* http.STATUS_CODES[code]: undefined for a code node does not know.
STATUS_CODES(code) ==
    CASE code = 200 -> Str(TXT_OK)
      [] code = 404 -> Str(TXT_NotFound)
      [] OTHER -> Undefined

(***************************************************************************)
(* Errors.                                                                 *)
(***************************************************************************)
Err(name, message) == [t |-> "error", name |-> name, message |-> message]

UsageError == Err("UsageError", TXT_invalidArguments)
UnknownMethodError(method) ==
    Err("VError", TXT_unknownMethodHead \o FmtS(method) \o <<"\"">>)
HeaderParseError(raw) ==
    Err("VError", TXT_failedHeaderHead \o raw \o <<"\"">>)

\* What the collaborators can fail with.
SignError == Err("SignError", <<>>)
ConnectError == Err("ConnectError", <<>>)
ResetError == Err("ResetError", <<>>)
HttpError(body) ==
    [t |-> "error", name |-> "HttpError", message |-> <<>>, body |-> body]

(***************************************************************************)
(* url.parse, restricted to [scheme://host[:port]]path[?query].            *)
(***************************************************************************)
UrlParse(s) ==
    LET c == IndexOf(s, ":")
        hasAuth == /\ c > 0
                   /\ Len(s) >= c + 3
                   /\ s[c + 2] = "/"
                   /\ s[c + 3] = "/"
        rest == IF hasAuth THEN SubstrFrom(s, c + 3) ELSE s
        sl == IndexOf(rest, "/")
        authority == IF ~hasAuth THEN <<>>
                     ELSE IF sl < 0 THEN rest
                     ELSE Substr(rest, 0, sl)
        pathq == IF ~hasAuth THEN s
                 ELSE IF sl < 0 THEN <<>>
                 ELSE SubstrFrom(rest, sl)
        q == IndexOf(pathq, "?")
        pc == IndexOf(authority, ":")
    IN  [host |-> IF hasAuth THEN Str(authority) ELSE JSNull,
         port |-> IF hasAuth /\ pc >= 0
                  THEN Str(SubstrFrom(authority, pc + 1)) ELSE JSNull,
         pathname |-> IF q < 0 THEN pathq ELSE Substr(pathq, 0, q),
         search |-> IF q < 0 THEN JSNull ELSE Str(SubstrFrom(pathq, q))]

\* client.path: the logical path mapped to the physical one ("~~" is the
\* caller's account).
ClientPath(p) ==
    IF Len(p) >= 2 /\ SubSeq(p, 1, 2) = TXT_tilde
    THEN TXT_account \o SubstrFrom(p, 2)
    ELSE p

\* client.signRequest, when it succeeds: the authentication header is set
\* on the mapping it was given.
SignHeaders(headers) == ObjSet(headers, TXT_authorization, Str(TXT_signature))

(***************************************************************************)
(* The inputs: the parsed options and the positional arguments.            *)
(***************************************************************************)
MethodValues ==
    {Undefined, Str(<<>>), Str(GET), Str(PUT), Str(POST), Str(HEAD),
     Str(OPTIONS), Str(DELETE), Str(METHOD_lower), Str(TXT_constructor)}

DataValues == {Undefined, Str(<<>>), Str(DATA_lines)}

HeaderFlagValues == {FLAG_ax, FLAG_ayz, FLAG_1y, FLAG_b}

RECURSIVE SeqsUpTo(_, _)
SeqsUpTo(S, n) ==
    IF n = 0 THEN {<<>>}
    ELSE LET shorter == SeqsUpTo(S, n - 1)
         IN  shorter \cup {Append(q, x) : q \in shorter, x \in S}

\* opts.header is undefined without -H, else the array of the -H values.
HeaderValues ==
    {Undefined} \cup
    {[t |-> "array", v |-> q] :
        q \in SeqsUpTo(HeaderFlagValues, MaxHeaderFlags) \ {<<>>}}

ArgLists == {<<>>, <<ARG_query>>, <<ARG_url>>, <<ARG_path, ARG_other>>}

OptsValues ==
    [help : BOOLEAN, verbose : BOOLEAN, include : BOOLEAN,
     method : MethodValues, data : DataValues, header : HeaderValues]

(***************************************************************************)
(* What the transport can deliver.                                         *)
(***************************************************************************)
StatusCodes == {200, 299, 404}

ResHeaderValues ==
    {<<<<HDR_a, Str(VAL_x)>>>>,
     <<<<HDR_b, Str(VAL_y)>>, <<HDR_1, Str(VAL_z)>>>>}

\* resErr.body: absent, empty, text, a parsed object, bytes.
ErrBodyValues ==
    {Undefined, Str(<<>>), Str(BODY_text),
     Obj(<<<<TXT_code, Str(TXT_ResNotFound)>>>>), Buf(<<102, 195>>)}

ChunkValues == {<<102, 195>>, <<195, 169>>}

(***************************************************************************)
(* State.                                                                  *)
(***************************************************************************)
VARIABLES
    pc,         \* where the callback chain stands
    opts,       \* the parsed options
    args,       \* the positional arguments
    method,     \* do_raw's `method`
    methodFunc, \* do_raw's `methodFunc`
    reqOpts,    \* do_raw's `reqOpts` ({headers, path})
    resErr,     \* the 'result' event's first argument
    res,        \* the 'result' event's second argument
    log         \* every call, event and write, in the order it happened

vars == <<pc, opts, args, method, methodFunc, reqOpts, resErr, res, log>>

E(ev, arg) == [ev |-> ev, arg |-> arg]

Init ==
    /\ pc = "start"
    /\ opts \in OptsValues
    /\ args \in ArgLists
    /\ method = Undefined
    /\ methodFunc = Undefined
    /\ reqOpts = Undefined
    /\ resErr = Undefined
    /\ res = Undefined
    /\ log = <<>>

(***************************************************************************)
(* do_raw: the synchronous part, up to the call of the signer.             *)
(***************************************************************************)
\* Mutant: the default is GET whatever -d says.
ResolveMethod_DefaultGet(o) ==
    IF ~Truthy(o.method) THEN Str(GET) ELSE o.method

\* The method: -X if it is truthy, else PUT with a truthy -d, else GET.
ResolveMethod(o) ==
    IF ~Truthy(o.method)
    THEN IF Truthy(o.data) THEN Str(PUT) ELSE Str(GET)
    ELSE o.method

MethodFuncTable ==
    <<<<GET, Str(TXT_get)>>, <<PUT, Str(TXT_put)>>, <<POST, Str(TXT_post)>>,
      <<HEAD, Str(TXT_head)>>, <<OPTIONS, Str(TXT_opts)>>,
      <<DELETE, Str(TXT_del)>>>>

\* Names every object literal inherits from Object.prototype.
ObjectPrototypeKeys == {TXT_constructor, TXT_toString}

\* {GET: 'get', ...}[method]: an own member, else an inherited one, else
\* undefined.
LookupMethodFunc(m) ==
    IF ObjHas(MethodFuncTable, m.v) THEN ObjGet(MethodFuncTable, m.v)
    ELSE IF m.v \in ObjectPrototypeKeys THEN [t |-> "function", v |-> m.v]
    ELSE Undefined

\* Mutant: a value without a colon is skipped.
RECURSIVE HeaderLoop_SkipBad(_, _, _)
HeaderLoop_SkipBad(list, i, headers) ==
    IF i > Len(list)
    THEN [failed |-> FALSE, headers |-> headers, raw |-> <<>>]
    ELSE LET raw == list[i]
             j == IndexOf(raw, ":")
         IN  IF j < 0
             THEN HeaderLoop_SkipBad(list, i + 1, headers)
             ELSE HeaderLoop_SkipBad(list, i + 1,
                      ObjSet(headers, Substr(raw, 0, j),
                             Str(TrimLeft(SubstrFrom(raw, j + 1)))))

\* The loop over opts.header: stops at the first value without a colon.
RECURSIVE HeaderLoop(_, _, _)
HeaderLoop(list, i, headers) ==
    IF i > Len(list)
    THEN [failed |-> FALSE, headers |-> headers, raw |-> <<>>]
    ELSE LET raw == list[i]
             j == IndexOf(raw, ":")
         IN  IF j < 0
             THEN [failed |-> TRUE, headers |-> headers, raw |-> raw]
             ELSE HeaderLoop(list, i + 1,
                      ObjSet(headers, Substr(raw, 0, j),
                             Str(TrimLeft(SubstrFrom(raw, j + 1)))))

ParseHeaders(o) ==
    IF Truthy(o.header) THEN HeaderLoop(o.header.v, 1, <<>>)
    ELSE [failed |-> FALSE, headers |-> <<>>, raw |-> <<>>]

\* The path of reqOpts: client.path(pathname), then the query string.
RequestPath(parsed) ==
    ClientPath(parsed.pathname) \o
    (IF Truthy(parsed.search) THEN parsed.search.v ELSE <<>>)

NoReqOpts == Undefined

DoRaw(o, a) ==
    LET m == ResolveMethod(o)
        f == LookupMethodFunc(m)
        parsed == UrlParse(a[1])
        hs == ParseHeaders(o)
        ro == [headers |-> hs.headers, path |-> RequestPath(parsed)]
        stop(out, at, mm, ff) ==
            [pc |-> at, method |-> mm, methodFunc |-> ff,
             reqOpts |-> NoReqOpts, out |-> out]
    IN  IF o.help
        THEN stop(<<E("do_help", Undefined)>>, "help", Undefined, Undefined)
        ELSE IF Len(a) < 1
        THEN stop(<<E("cb", UsageError)>>, "done", Undefined, Undefined)
        ELSE IF ~Truthy(f)
        THEN stop(<<E("cb", UnknownMethodError(m))>>, "done", m, f)
        ELSE IF Truthy(parsed.host)
        THEN stop(<<E("throw", Err("AssertionError",
                        TXT_hostAssertHead \o parsed.host.v))>>,
                  "thrown", m, f)
        ELSE IF Truthy(parsed.port)
        THEN stop(<<E("throw", Err("AssertionError",
                        TXT_portAssertHead \o parsed.port.v))>>,
                  "thrown", m, f)
        ELSE IF hs.failed
        THEN stop(<<E("cb", HeaderParseError(hs.raw))>>, "done", m, f)
        ELSE [pc |-> "signing", method |-> m, methodFunc |-> f,
              reqOpts |-> ro,
              out |-> <<E("signRequest", ro.headers)>>]

do_raw ==
    /\ pc = "start"
    /\ LET r == DoRaw(opts, args)
       IN  /\ pc' = r.pc
           /\ method' = r.method
           /\ methodFunc' = r.methodFunc
           /\ reqOpts' = r.reqOpts
           /\ log' = log \o r.out
    /\ UNCHANGED <<opts, args, resErr, res>>

(***************************************************************************)
(* onSignRequest: the signer's callback.                                   *)
(***************************************************************************)
ClientMethods == {TXT_get, TXT_put, TXT_post, TXT_head, TXT_opts, TXT_del}

\* Mutant: the `return` after cb(signErr) is missing.
OnSignRequest_NoReturn(signErr, f, ro) ==
    [pc |-> "opening",
     out |-> (IF Truthy(signErr) THEN <<E("cb", signErr)>> ELSE <<>>) \o
             <<E("open", [func |-> f.v, path |-> ro.path,
                          headers |-> ro.headers])>>]

\* client.client[methodFunc](reqOpts, onRequest): a TypeError when the
\* client has no function of that name.
OnSignRequest(signErr, f, ro) ==
    IF Truthy(signErr)
    THEN [pc |-> "done", out |-> <<E("cb", signErr)>>]
    ELSE IF f.t = "string" /\ f.v \in ClientMethods
    THEN [pc |-> "opening",
          out |-> <<E("open", [func |-> f.v, path |-> ro.path,
                               headers |-> ro.headers])>>]
    ELSE [pc |-> "thrown", out |-> <<E("throw", Err("TypeError", <<>>))>>]

\* Mutant: the signer works on a copy of the headers.
SignedReqOpts_Copy(ro, signErr) == ro

\* signRequest({headers: reqOpts.headers}, ...): the signer is handed the
\* headers object of reqOpts itself, so what it adds is in reqOpts when
\* it calls back.
SignedReqOpts(ro, signErr) ==
    IF Truthy(signErr) THEN ro
    ELSE [ro EXCEPT !.headers = SignHeaders(@)]

onSignRequest ==
    /\ pc = "signing"
    /\ \E signErr \in {JSNull, SignError} :
         LET ro == SignedReqOpts(reqOpts, signErr)
             r == OnSignRequest(signErr, methodFunc, ro)
         IN  /\ reqOpts' = ro
             /\ pc' = r.pc
             /\ log' = log \o <<E("signed", signErr)>> \o r.out
    /\ UNCHANGED <<opts, args, method, methodFunc, resErr, res>>

(***************************************************************************)
(* onRequest: the transport's callback once the request is open.           *)
(***************************************************************************)
\* Mutant: the writes go to the error stream.
Stdout_ToStderr(text) == E("stderr", text)

\* console.log and process.stdout.write both write to standard output.
Stdout(text) == E("stdout", text)

\* Mutant: the headers are listed in insertion order.
RequestTrace_InsertionOrder(m, ro) ==
    <<Stdout(ConsoleLog(<<<<">">>, FmtS(m), ro.path, TXT_HTTP11>>))>> \o
    [i \in 1..Len(ro.headers) |->
        Stdout(ConsoleLog(<<<<">">>, ro.headers[i][1] \o <<":">>,
                            FmtS(ro.headers[i][2])>>))] \o
    <<Stdout(ConsoleLog(<<<<">">>>>))>>

\* console.log('> %s %s HTTP/1.1', ...), one '> %s: %s' per header, '>'.
RequestTrace(m, ro) ==
    <<Stdout(ConsoleLog(<<<<">">>, FmtS(m), ro.path, TXT_HTTP11>>))>> \o
    [i \in 1..Len(ObjectKeys(ro.headers)) |->
        LET key == ObjectKeys(ro.headers)[i]
        IN  Stdout(ConsoleLog(<<<<">">>, key \o <<":">>,
                                FmtS(ObjGet(ro.headers, key))>>))] \o
    <<Stdout(ConsoleLog(<<<<">">>>>))>>

\* The echo of the body: console.log('>', line) for each line of opts.data.
DataTrace(data) ==
    [i \in 1..Len(SplitLines(data.v)) |->
        Stdout(ConsoleLog(<<<<">">>, SplitLines(data.v)[i]>>))]

\* Mutant: the body is written before it is echoed.
SendBody_WriteFirst(o) ==
    IF Truthy(o.data)
    THEN <<E("req.write", o.data.v)>> \o
         (IF o.verbose THEN DataTrace(o.data) ELSE <<>>)
    ELSE <<>>

\* if (opts.data) { ...; req.write(opts.data); }
SendBody(o) ==
    IF Truthy(o.data)
    THEN (IF o.verbose THEN DataTrace(o.data) ELSE <<>>) \o
         <<E("req.write", o.data.v)>>
    ELSE <<>>

OnRequest(o, m, ro, reqErr) ==
    IF Truthy(reqErr)
    THEN [pc |-> "done", out |-> <<E("cb", reqErr)>>]
    ELSE [pc |-> "awaitResult",
          out |-> (IF o.verbose THEN RequestTrace(m, ro) ELSE <<>>) \o
                  <<E("req.on", "result")>> \o
                  SendBody(o) \o
                  <<E("req.end", Undefined)>>]

onRequest ==
    /\ pc = "opening"
    /\ \E reqErr \in {JSNull, ConnectError} :
         LET r == OnRequest(opts, method, reqOpts, reqErr)
         IN  /\ pc' = r.pc
             /\ log' = log \o <<E("opened", reqErr)>> \o r.out
    /\ UNCHANGED <<opts, args, method, methodFunc, reqOpts, resErr, res>>

(***************************************************************************)
(* The 'result' handler.                                                   *)
(***************************************************************************)
\* Mutant: the method is not looked at.
WriteResLine_NoHead(o, m, line) ==
    (IF o.verbose THEN <<Stdout(ConsoleLog(<<<<"<">>, line>>))>> ELSE <<>>) \o
    (IF o.include THEN <<Stdout(ConsoleLog(<<line>>))>> ELSE <<>>)

\* writeResLine: '<' and the line when verbose; the line when include or
\* the method is HEAD.
WriteResLine(o, m, line) ==
    (IF o.verbose THEN <<Stdout(ConsoleLog(<<<<"<">>, line>>))>> ELSE <<>>) \o
    (IF o.include \/ m = Str(HEAD)
     THEN <<Stdout(ConsoleLog(<<line>>))>> ELSE <<>>)

StatusLine(r) ==
    TXT_HTTP \o r.httpVersion \o <<" ">> \o DecStr(r.statusCode) \o <<" ">> \o
    FmtS(STATUS_CODES(r.statusCode))

HeaderLine(r, key) == key \o <<":", " ">> \o FmtS(ObjGet(r.headers, key))

\* Mutant: the closing writeResLine('') is missing.
ResponseTrace_NoBlank(o, m, r) ==
    WriteResLine(o, m, StatusLine(r)) \o
    Concat([i \in 1..Len(ObjectKeys(r.headers)) |->
               WriteResLine(o, m, HeaderLine(r, ObjectKeys(r.headers)[i]))])

\* The three writeResLine steps of the handler, in order.
ResponseTrace(o, m, r) ==
    WriteResLine(o, m, StatusLine(r)) \o
    Concat([i \in 1..Len(ObjectKeys(r.headers)) |->
               WriteResLine(o, m, HeaderLine(r, ObjectKeys(r.headers)[i]))]) \o
    WriteResLine(o, m, <<>>)

BodyOf(err) == IF "body" \in DOMAIN err THEN err.body ELSE Undefined

\* Mutant: every body is serialized, text too.
ErrorBodyOutput_AlwaysJson(err) ==
    IF Truthy(BodyOf(err))
    THEN <<Stdout(ConsoleLog(<<JSONStringify(BodyOf(err))>>))>>
    ELSE <<>>

\* if (resErr.body) { object: console.log(JSON.stringify(body));
\*                    else: process.stdout.write(body) }
ErrorBodyOutput(err) ==
    IF Truthy(BodyOf(err))
    THEN IF TypeOf(BodyOf(err)) = "object"
         THEN <<Stdout(ConsoleLog(<<JSONStringify(BodyOf(err))>>))>>
         ELSE <<Stdout(BodyOf(err).v)>>
    ELSE <<>>

\* Mutant: resErr is looked at before the method.
AfterTrace_ErrFirst(m, rerr) ==
    IF Truthy(rerr)
    THEN [pc |-> "done",
          out |-> ErrorBodyOutput(rerr) \o <<E("cb", Undefined)>>]
    ELSE IF m = Str(HEAD)
    THEN [pc |-> "done", out |-> <<E("cb", Undefined)>>]
    ELSE [pc |-> "streaming",
          out |-> <<E("res.on", "data"), E("res.on", "end")>>]

\* Mutant: resErr is handed to the callback.
AfterTrace_FailOnStatus(m, rerr) ==
    IF m = Str(HEAD)
    THEN [pc |-> "done", out |-> <<E("cb", Undefined)>>]
    ELSE IF Truthy(rerr)
    THEN [pc |-> "done",
          out |-> ErrorBodyOutput(rerr) \o <<E("cb", rerr)>>]
    ELSE [pc |-> "streaming",
          out |-> <<E("res.on", "data"), E("res.on", "end")>>]

\* What follows the trace: HEAD calls back; resErr prints its body and
\* calls back; otherwise the body listeners are attached.
AfterTrace(m, rerr) ==
    IF m = Str(HEAD)
    THEN [pc |-> "done", out |-> <<E("cb", Undefined)>>]
    ELSE IF Truthy(rerr)
    THEN [pc |-> "done",
          out |-> ErrorBodyOutput(rerr) \o <<E("cb", Undefined)>>]
    ELSE [pc |-> "streaming",
          out |-> <<E("res.on", "data"), E("res.on", "end")>>]

\* res.httpVersion of a missing res is a TypeError.
OnResult(o, m, rerr, r) ==
    IF r.t # "response"
    THEN [pc |-> "thrown", out |-> <<E("throw", Err("TypeError", <<>>))>>]
    ELSE [pc |-> AfterTrace(m, rerr).pc,
          out |-> ResponseTrace(o, m, r) \o AfterTrace(m, rerr).out]

Response(status, headers) ==
    [t |-> "response", httpVersion |-> TXT_version, statusCode |-> status,
     headers |-> headers]

\* What the transport emits as 'result': a response, with an error that
\* carries the body it read when the status is >= 400; or a transport error
\* and no response.
ResultValues ==
    {<<JSNull, Response(st, h)>> :
        st \in {c \in StatusCodes : c < 400}, h \in ResHeaderValues}
    \cup
    {<<HttpError(b), Response(st, h)>> :
        b \in ErrBodyValues, st \in {c \in StatusCodes : c >= 400},
        h \in ResHeaderValues}
    \cup
    {<<ResetError, JSNull>>}

onResult ==
    /\ pc = "awaitResult"
    /\ \E rv \in ResultValues :
         LET r == OnResult(opts, method, rv[1], rv[2])
         IN  /\ resErr' = rv[1]
             /\ res' = rv[2]
             /\ pc' = r.pc
             /\ log' = log \o <<E("result", rv)>> \o r.out
    /\ UNCHANGED <<opts, args, method, methodFunc, reqOpts>>

(***************************************************************************)
(* The body: 'data', 'end', and a failure while it is read.                *)
(***************************************************************************)
NumData == Len(SelectSeq(log, LAMBDA e : e.ev = "data"))

\* Mutant: the chunk is kept, not written.
OnData_Buffered(chunk) == <<>>

\* process.stdout.write(chunk.toString('utf8'))
OnData(chunk) == <<Stdout(Utf8ToString(chunk))>>

onData ==
    /\ pc = "streaming"
    /\ NumData < MaxChunks
    /\ \E chunk \in ChunkValues :
         log' = log \o <<E("data", chunk)>> \o OnData(chunk)
    /\ UNCHANGED <<pc, opts, args, method, methodFunc, reqOpts, resErr, res>>

OnEnd == <<E("cb", Undefined)>>

onEnd ==
    /\ pc = "streaming"
    /\ pc' = "done"
    /\ log' = log \o <<E("end", Undefined)>> \o OnEnd
    /\ UNCHANGED <<opts, args, method, methodFunc, reqOpts, resErr, res>>

\* The connection fails while the body is read.  res has listeners for
\* 'data' and 'end' only: an 'error' event is an uncaught exception, an
\* 'aborted' or 'close' event is not heard at all.
OnBodyFailure(event, err) ==
    IF event = "error"
    THEN [pc |-> "thrown", out |-> <<E("throw", err)>>]
    ELSE [pc |-> "hung", out |-> <<>>]

onBodyFailure ==
    /\ pc = "streaming"
    /\ \E event \in {"error", "aborted"} :
         LET r == OnBodyFailure(event, ResetError)
         IN  /\ pc' = r.pc
             /\ log' = log \o <<E("bodyFailure", ResetError)>> \o r.out
    /\ UNCHANGED <<opts, args, method, methodFunc, reqOpts, resErr, res>>

Next ==
    \/ do_raw
    \/ onSignRequest
    \/ onRequest
    \/ onResult
    \/ onData
    \/ onEnd
    \/ onBodyFailure

Spec == Init /\ [][Next]_vars

(***************************************************************************)
(* Observations on the log.                                                *)
(***************************************************************************)
Events(ev) == SelectSeq(log, LAMBDA e : e.ev = ev)
Count(ev) == Len(Events(ev))
Happened(ev) == \E i \in 1..Len(log) : log[i].ev = ev
IndexOfEvent(ev) == CHOOSE i \in 1..Len(log) : log[i].ev = ev

\* The completion callback's invocations, as the errors it was given.
CbCalls == [i \in 1..Count("cb") |-> Events("cb")[i].arg]

\* The primary output: every write, and all of it as one text.
StdoutWrites == [i \in 1..Count("stdout") |-> Events("stdout")[i].arg]
StdoutText == Concat(StdoutWrites)

\* The run got past the argument checks of do_raw.
Started == pc # "start" /\ ~opts.help /\ Len(args) >= 1

GotResponse == res.t = "response"

\* What was logged after the 'result' event, and the writes among it.
AfterResult == SubSeq(log, IndexOfEvent("result") + 1, Len(log))
WritesAfterResult ==
    LET w == SelectSeq(AfterResult, LAMBDA e : e.ev = "stdout")
    IN  [i \in 1..Len(w) |-> w[i].arg]

\* The chunks the transport delivered, in arrival order.
Chunks == [i \in 1..Count("data") |-> Events("data")[i].arg]

SupportedMethods == {GET, PUT, POST, HEAD, OPTIONS, DELETE}

(***************************************************************************)
(* Request signing.                                                        *)
(***************************************************************************)
\* C1: the signer is invoked at most once, and exactly once in every run
\* that gets past the checks of do_raw and before any request is opened; a request is opened only after the signer has called
\* back without an error; when the signer calls back with an error, the
\* completion callback has received exactly that error and nothing was
\* opened, written or ended.
C1_SignBeforeOpen ==
    /\ Count("signRequest") <= 1
    /\ pc \in {"signing", "opening", "awaitResult", "streaming", "hung"} =>
         Count("signRequest") = 1
    /\ Happened("signed") => Count("signRequest") = 1
    /\ \A i \in 1..Len(log) :
         log[i].ev = "open" =>
           /\ \E j \in 1..(i - 1) : log[j].ev = "signRequest"
           /\ \E j \in 1..(i - 1) : log[j].ev = "signed" /\ ~Truthy(log[j].arg)
    /\ \A j \in 1..Len(log) :
         (log[j].ev = "signed" /\ Truthy(log[j].arg)) =>
           /\ CbCalls = <<log[j].arg>>
           /\ ~Happened("open")
           /\ ~Happened("req.write")
           /\ ~Happened("req.end")

C1_Witness ==
    /\ Happened("signed")
    /\ Truthy(log[IndexOfEvent("signed")].arg)
    /\ pc = "done"

(***************************************************************************)
(* HEAD.                                                                   *)
(***************************************************************************)
\* C2: with method HEAD, once a response has arrived (any status, with or
\* without resErr), the run is complete: the callback was called once,
\* without an error, no listener was attached to the response, and the
\* only writes after the result are the header trace lines, so neither a
\* pre-read error body nor any body content was written.
C2_HeadNoBody ==
    (method = Str(HEAD) /\ GotResponse) =>
      /\ pc = "done"
      /\ CbCalls = <<Undefined>>
      /\ log[Len(log)].ev = "cb"
      /\ ~Happened("res.on")
      /\ ~Happened("data")
      /\ Len(WritesAfterResult) =
           (IF opts.verbose THEN 2 ELSE 1) * (Len(res.headers) + 2)
      /\ \A i \in 1..Len(WritesAfterResult) :
           Truthy(BodyOf(resErr)) /\ BodyOf(resErr).t = "string" =>
             WritesAfterResult[i] # BodyOf(resErr).v

C2_Witness ==
    /\ method = Str(HEAD)
    /\ GotResponse
    /\ res.statusCode >= 400
    /\ Truthy(BodyOf(resErr))
    /\ pc = "done"

(***************************************************************************)
(* Status >= 400.                                                          *)
(***************************************************************************)
\* C3: once a response with status >= 400 has arrived, the run is complete
\* and the completion callback was invoked exactly once, with no error,
\* whether or not the error carries a body.
C3_ErrorStatusSucceeds ==
    (GotResponse /\ res.statusCode >= 400) =>
      /\ pc = "done"
      /\ CbCalls = <<Undefined>>

C3_Witness ==
    /\ GotResponse
    /\ res.statusCode >= 400
    /\ method # Str(HEAD)
    /\ ~Truthy(BodyOf(resErr))
    /\ CbCalls = <<Undefined>>

\* The case of C4: status >= 400, not HEAD, a body on the error, neither
\* verbose nor include.
C4_Case ==
    /\ GotResponse
    /\ res.statusCode >= 400
    /\ method # Str(HEAD)
    /\ Truthy(BodyOf(resErr))
    /\ ~opts.verbose
    /\ ~opts.include

\* C4 as claimed: the output is exactly the body: the compact
\* serialization of a structured body, the text or the bytes of a raw body.
C4_Original ==
    C4_Case =>
      StdoutText =
        CASE BodyOf(resErr).t = "object" -> JSONStringify(BodyOf(resErr))
          [] BodyOf(resErr).t = "buffer" -> Utf8ToString(BodyOf(resErr).v)
          [] OTHER -> BodyOf(resErr).v

\* C4 as amended: a body whose type is object (a parsed value, and a byte
\* buffer too) is written as its compact serialization followed by one
\* newline; a text body is written through unchanged; nothing else is
\* written.  For {"code":"NotFound"} the output is that text and "\n".
C4_ErrorBodyOutput ==
    C4_Case =>
      /\ StdoutText =
           (IF BodyOf(resErr).t = "string" THEN BodyOf(resErr).v
            ELSE JSONStringify(BodyOf(resErr)) \o <<"\n">>)
      /\ BodyOf(resErr) = Obj(<<<<TXT_code, Str(TXT_ResNotFound)>>>>) =>
           StdoutText = TXT_NotFoundJsonLine

C4_Witness ==
    /\ C4_Case
    /\ BodyOf(resErr).t = "object"
    /\ StdoutText = TXT_NotFoundJsonLine

(***************************************************************************)
(* The streamed body.                                                      *)
(***************************************************************************)
OnStreamingPath == Happened("res.on")

\* C5: on the streaming path every 'data' event is followed at once by one
\* write of that chunk (decoded as UTF-8), so the writes made after the
\* listeners were attached are the chunks, once each, in arrival order;
\* and the completion callback is invoked only by the 'end' event, once,
\* without an error, after every chunk was written.
C5_StreamInOrder ==
    OnStreamingPath =>
      /\ \A i \in 1..Len(log) :
           log[i].ev = "data" =>
             /\ i < Len(log)
             /\ log[i + 1].ev = "stdout"
             /\ log[i + 1].arg = Utf8ToString(log[i].arg)
      /\ LET from == CHOOSE i \in 1..Len(log) :
                       log[i].ev = "res.on" /\ log[i].arg = "end"
             w == SelectSeq(SubSeq(log, from + 1, Len(log)),
                            LAMBDA e : e.ev = "stdout")
         IN  /\ Len(w) = Len(Chunks)
             /\ \A i \in 1..Len(w) : w[i].arg = Utf8ToString(Chunks[i])
      /\ Happened("cb") =>
           /\ CbCalls = <<Undefined>>
           /\ log[Len(log)].ev = "cb"
           /\ log[Len(log) - 1].ev = "end"

C5_Witness ==
    /\ OnStreamingPath
    /\ pc = "done"
    /\ Len(Chunks) >= 2
    /\ Chunks[1] # Chunks[2]

(***************************************************************************)
(* Transport failures.                                                     *)
(***************************************************************************)
\* C6: every transport failure (the request could not be opened; 'result'
\* came with an error and no response; the connection failed while the
\* body was read) reaches the completion callback, once, as that error.
C6_TransportErrorSurfaced ==
    \A i \in 1..Len(log) :
      /\ (log[i].ev = "opened" /\ Truthy(log[i].arg)) =>
           CbCalls = <<log[i].arg>>
      /\ (log[i].ev = "result" /\ log[i].arg[2].t # "response") =>
           CbCalls = <<log[i].arg[1]>>
      /\ log[i].ev = "bodyFailure" => CbCalls = <<log[i].arg>>

(***************************************************************************)
(* The response header trace.                                              *)
(***************************************************************************)
RECURSIVE LeadingWrites(_)
LeadingWrites(entries) ==
    IF entries # <<>> /\ Head(entries).ev = "stdout"
    THEN <<Head(entries).arg>> \o LeadingWrites(Tail(entries))
    ELSE <<>>

\* The error path wrote the pre-read body.
ErrBodyWritten ==
    /\ method # Str(HEAD)
    /\ Truthy(resErr)
    /\ Truthy(BodyOf(resErr))

\* The writes of the 'result' handler that are not the error body.
TraceWrites ==
    LET w == LeadingWrites(AfterResult)
    IN  IF ErrBodyWritten /\ w # <<>> THEN SubSeq(w, 1, Len(w) - 1) ELSE w

TraceWanted == opts.verbose \/ opts.include \/ method = Str(HEAD)

TraceLines(keys) ==
    <<StatusLine(res)>> \o
    [i \in 1..Len(keys) |-> HeaderLine(res, keys[i])] \o
    << <<>> >>

NumBodyWrites == Count("data") + (IF ErrBodyWritten THEN 1 ELSE 0)

\* C8 as claimed: when the trace is printed it is one write per line: the
\* status line, the headers in wire order, the blank line; then the body.
C8_Original ==
    (GotResponse /\ TraceWanted) =>
      LET lines == TraceLines(InsertionKeys(res.headers))
      IN  /\ Len(TraceWrites) = Len(lines)
          /\ \A i \in 1..Len(lines) :
               TraceWrites[i] \in {ConsoleLog(<<lines[i]>>),
                                   ConsoleLog(<<<<"<">>, lines[i]>>)}
          /\ Len(WritesAfterResult) = Len(TraceWrites) + NumBodyWrites

\* C8 as amended: when the trace is printed, each of its lines (status
\* line, one line per entry of the header mapping in the order Object.keys
\* gives: array-index names ascending, then the others in wire order, then
\* the blank line) is written with the '< ' prefix if verbose, and plain if
\* include or HEAD, so twice in succession when both hold; all of it before
\* any body content.
C8_TraceBlock ==
    (GotResponse /\ TraceWanted) =>
      LET lines == TraceLines(ObjectKeys(res.headers))
          plain == opts.include \/ method = Str(HEAD)
          expected ==
            Concat([i \in 1..Len(lines) |->
               (IF opts.verbose
                THEN <<<<"<", " ">> \o lines[i] \o <<"\n">>>> ELSE <<>>) \o
               (IF plain THEN <<lines[i] \o <<"\n">>>> ELSE <<>>)])
      IN  /\ TraceWrites = expected
          /\ Len(WritesAfterResult) = Len(expected) + NumBodyWrites
          /\ SubSeq(WritesAfterResult, 1, Len(expected)) = expected
          /\ (/\ ~opts.verbose
              /\ res.statusCode = 200
              /\ res.headers = <<<<HDR_a, Str(VAL_x)>>>>) =>
               TraceWrites = <<TXT_line200, TXT_lineAX, <<"\n">>>>

C8_Witness ==
    /\ GotResponse
    /\ opts.verbose
    /\ opts.include
    /\ Len(res.headers) = 2
    /\ Count("data") >= 1
    /\ Len(TraceWrites) = 8

C10_UnknownMethodRejected ==
    (Started /\ method.v \notin SupportedMethods) =>
      /\ CbCalls = <<UnknownMethodError(method)>>
      /\ ~Happened("signRequest")
      /\ ~Happened("open")

(***************************************************************************)
(* The checks of do_raw.                                                   *)
(***************************************************************************)
HasColon(flag) == \E k \in 1..Len(flag) : flag[k] = ":"

Flags == IF opts.header = Undefined THEN <<>> ELSE opts.header.v

HasBadFlag == \E i \in 1..Len(Flags) : ~HasColon(Flags[i])

FirstBadFlag ==
    Flags[CHOOSE i \in 1..Len(Flags) :
            /\ ~HasColon(Flags[i])
            /\ \A k \in 1..(i - 1) : HasColon(Flags[k])]

TargetHasHost == Truthy(UrlParse(args[1]).host) \/ Truthy(UrlParse(args[1]).port)

\* The run passed the checks made before the headers are looked at.
ReachedHeaders ==
    /\ Started
    /\ method.v \in SupportedMethods
    /\ ~TargetHasHost

C12_InvalidTargetReported ==
    (Started /\ method.v \in SupportedMethods /\ TargetHasHost) =>
      /\ Count("cb") = 1
      /\ Truthy(CbCalls[1])
      /\ ~Happened("signRequest")
      /\ ~Happened("open")

\* C13: with no argument or with more than one, the run ends with the
\* usage error and neither the signer nor the transport is called.
C13_ExactlyOneArgument ==
    (pc # "start" /\ ~opts.help /\ Len(args) # 1) =>
      /\ CbCalls = <<UsageError>>
      /\ ~Happened("signRequest")
      /\ ~Happened("open")

(***************************************************************************)
(* The verbose request trace.                                              *)
(***************************************************************************)
\* What onRequest wrote before it registered the 'result' handler.
ReqTraceWrites ==
    LET w == SelectSeq(SubSeq(log, IndexOfEvent("opened") + 1,
                              IndexOfEvent("req.on") - 1),
                       LAMBDA e : e.ev = "stdout")
    IN  [i \in 1..Len(w) |-> w[i].arg]

\* '> METHOD PATH HTTP/1.1', then '> NAME: VALUE' for the names in `keys`.
ExpectedReqTrace(keys) ==
    <<<<">", " ">> \o method.v \o <<" ">> \o reqOpts.path \o <<" ">> \o
      TXT_HTTP11 \o <<"\n">>>> \o
    [i \in 1..Len(keys) |->
        <<">", " ">> \o keys[i] \o <<":", " ">> \o
        ObjGet(reqOpts.headers, keys[i]).v \o <<"\n">>]

\* Nothing is written before the request is open, and no '>' line is
\* written once the result has arrived.
ReqTraceFirst ==
    /\ \A i \in 1..Len(log) :
         log[i].ev = "stdout" => i > IndexOfEvent("opened")
    /\ Happened("result") =>
         \A i \in 1..Len(WritesAfterResult) :
           WritesAfterResult[i] = <<>> \/ WritesAfterResult[i][1] # ">"

C14_Case == opts.verbose /\ Happened("req.end")

\* C14 as claimed: the request line and one line per request header in
\* insertion order, before the request is sent and before the response
\* trace.
C14_Original ==
    C14_Case =>
      LET e == ExpectedReqTrace(InsertionKeys(reqOpts.headers))
      IN  /\ Len(ReqTraceWrites) >= Len(e)
          /\ SubSeq(ReqTraceWrites, 1, Len(e)) = e
          /\ ReqTraceFirst

\* C14 as amended: with verbose, once the request is open and before its
\* body is written and it is ended, the request line is written, then one
\* '> NAME: VALUE' line per header of the request in the order Object.keys
\* gives (array-index names ascending, then the others in insertion
\* order), then a lone '>'; the response trace is written after header
\* arrival, so every request trace line precedes every response trace
\* line.
C14_RequestTrace ==
    C14_Case =>
      LET e == ExpectedReqTrace(ObjectKeys(reqOpts.headers))
      IN  /\ ReqTraceWrites = e \o << <<">", "\n">> >>
          /\ ReqTraceFirst
          /\ (method = Str(GET) /\ args[1] = ARG_path) =>
               ReqTraceWrites[1] = TXT_reqLineGetB

C14_Witness ==
    /\ C14_Case
    /\ GotResponse
    /\ Flags = <<FLAG_ax, FLAG_1y>>
    /\ Len(ReqTraceWrites) = 5
    /\ Len(TraceWrites) >= 3

(***************************************************************************)
(* The output streams.                                                     *)
(***************************************************************************)
\* The '>' lines written before the request is ended: the request trace
\* and the echo of the body.
OutboundWrites ==
    LET w == SelectSeq(SubSeq(log, 1, IndexOfEvent("req.end")),
                       LAMBDA e : e.ev = "stdout")
    IN  [i \in 1..Len(w) |-> w[i].arg]

MantaUriParse(text) ==
    LET c == IndexOf(text, ":")
        rest == SubstrFrom(text, c + 1)
        sl == IndexOf(rest, "/")
        bucket == IF sl < 0 THEN rest ELSE Substr(rest, 0, sl)
    IN  IF c < 0 \/ Substr(text, 0, c) # TXT_manta \/ bucket = <<>>
        THEN [ok |-> FALSE, bucket |-> <<>>, object |-> Undefined,
              err |-> Err("Error", TXT_invalidUri)]
        ELSE [ok |-> TRUE, bucket |-> bucket,
              object |-> IF sl < 0 THEN Undefined
                         ELSE Str(SubstrFrom(rest, sl + 1)),
              err |-> Undefined]

InfoUsageError == Err("UsageError", TXT_incorrectArgs)
InfoParseError(parseErr) == Err("UsageError", parseErr.message)

InfoUris == {URI_bucket, URI_object, URI_nested, URI_slash, URI_bad}
InfoArgLists == SeqsUpTo(InfoUris, MaxInfoArgs)
InfoOptsValues == [help : BOOLEAN]

\* What a HEAD request ends with: an error, or a response.
HeadResults ==
    {<<ConnectError, Undefined>>, <<HttpError(Undefined), Undefined>>} \cup
    {<<JSNull, Response(200, h)>> : h \in ResHeaderValues}

\* Mutant: the object of the URI is not looked at.
DoInfo_BucketOnly(o, a) ==
    LET muri == MantaUriParse(a[1])
    IN  IF o.help
        THEN [pc |-> "help", out |-> <<E("do_help", Undefined)>>]
        ELSE IF Len(a) # 1
        THEN [pc |-> "done", out |-> <<E("cb", InfoUsageError)>>]
        ELSE IF ~muri.ok
        THEN [pc |-> "done", out |-> <<E("cb", InfoParseError(muri.err))>>]
        ELSE [pc |-> "headBucket", out |-> <<E("headBucket", muri.bucket)>>]

DoInfo(o, a) ==
    LET muri == MantaUriParse(a[1])
    IN  IF o.help
        THEN [pc |-> "help", out |-> <<E("do_help", Undefined)>>]
        ELSE IF Len(a) # 1
        THEN [pc |-> "done", out |-> <<E("cb", InfoUsageError)>>]
        ELSE IF ~muri.ok
        THEN [pc |-> "done", out |-> <<E("cb", InfoParseError(muri.err))>>]
        ELSE IF ~Truthy(muri.object)
        THEN [pc |-> "headBucket", out |-> <<E("headBucket", muri.bucket)>>]
        ELSE [pc |-> "headBucketObject",
              out |-> <<E("headBucketObject",
                          [bucket |-> muri.bucket,
                           object |-> muri.object.v])>>]

\* The callback of either HEAD request: the error to cb, or the headers
\* to clicommon.printBucketObjectInfo and then cb().
OnHead(err, r) ==
    IF Truthy(err) THEN <<E("cb", err)>>
    ELSE <<E("printBucketObjectInfo", r), E("cb", Undefined)>>

InitInfo ==
    /\ pc = "info"
    /\ opts \in InfoOptsValues
    /\ args \in InfoArgLists
    /\ method = Undefined
    /\ methodFunc = Undefined
    /\ reqOpts = Undefined
    /\ resErr = Undefined
    /\ res = Undefined
    /\ log = <<>>

do_info ==
    /\ pc = "info"
    /\ pc' = DoInfo(opts, args).pc
    /\ log' = log \o DoInfo(opts, args).out
    /\ UNCHANGED <<opts, args, method, methodFunc, reqOpts, resErr, res>>

onHeadBucket ==
    /\ pc = "headBucket"
    /\ \E hr \in HeadResults :
         /\ resErr' = hr[1]
         /\ res' = hr[2]
         /\ log' = log \o <<E("head", hr)>> \o OnHead(hr[1], hr[2])
    /\ pc' = "done"
    /\ UNCHANGED <<opts, args, method, methodFunc, reqOpts>>

onHeadBucketObject ==
    /\ pc = "headBucketObject"
    /\ \E hr \in HeadResults :
         /\ resErr' = hr[1]
         /\ res' = hr[2]
         /\ log' = log \o <<E("head", hr)>> \o OnHead(hr[1], hr[2])
    /\ pc' = "done"
    /\ UNCHANGED <<opts, args, method, methodFunc, reqOpts>>

NextInfo ==
    \/ do_info
    \/ onHeadBucket
    \/ onHeadBucketObject

SpecInfo == InitInfo /\ [][NextInfo]_vars

\* The URI names a bucket, and an object if text follows the first '/'.
UriParseable(text) ==
    /\ Len(text) > 6
    /\ SubSeq(text, 1, 6) = TXT_manta \o <<":">>
    /\ text[7] # "/"
UriNamesObject(text) ==
    \E k \in 1..(Len(text) - 1) :
      text[k] = "/" /\ \A j \in 1..(k - 1) : text[j] # "/"

HeadCalls == Count("headBucket") + Count("headBucketObject")

FlagColon(flag) ==
    CHOOSE k \in 1..Len(flag) :
      flag[k] = ":" /\ \A j \in 1..(k - 1) : flag[j] # ":"

FlagName(flag) == SubSeq(flag, 1, FlagColon(flag) - 1)

\* The text after the first colon, without its leading whitespace.
FlagValue(flag) ==
    LET rest == SubSeq(flag, FlagColon(flag) + 1, Len(flag))
    IN  IF \A i \in 1..Len(rest) : rest[i] \in WhiteSpace THEN <<>>
        ELSE SubSeq(rest,
                    CHOOSE n \in 1..Len(rest) :
                      /\ rest[n] \notin WhiteSpace
                      /\ \A j \in 1..(n - 1) : rest[j] \in WhiteSpace,
                    Len(rest))

FlagHeaders ==
    [i \in 1..Len(Flags) |-> <<FlagName(Flags[i]), Str(FlagValue(Flags[i]))>>]

\* The headers of the request handed to the transport, the signer's aside.
SentHeaders ==
    SelectSeq(Events("open")[1].arg.headers,
              LAMBDA p : p[1] # TXT_authorization)

\* The same, in the order in which the keys of the mapping are enumerated.
CarriedHeaders ==
    LET ks == ObjectKeys(SentHeaders)
    IN  [i \in 1..Len(ks) |-> <<ks[i], ObjGet(SentHeaders, ks[i])>>]

C17_Case == Happened("open")

\* C17: each flag gives the name before its first colon and the value after
\* it without leading whitespace, and the request carries one header per
\* flag, in the order of the flags, also when two flags use the same name.
C17_OneHeaderPerFlag ==
    C17_Case => CarriedHeaders = FlagHeaders

(***************************************************************************)
(* The body of the request.                                                *)
(***************************************************************************)
\* What happens between the registration of the 'result' handler and the
\* end of the request.
BodySteps ==
    SubSeq(log, IndexOfEvent("req.on") + 1, IndexOfEvent("req.end") - 1)

HasPayload == opts.data # Undefined /\ opts.data.v # <<>>

NumLines(text) == 1 + Cardinality({i \in 1..Len(text) : text[i] = "\n"})

\* C18: once the request is open the 'result' handler is registered, then
\* the body is written once, verbatim, if and only if there is a payload,
\* then the request is ended once; with verbose and a payload, one
\* '> '-prefixed line per line of the payload is written before the body
\* is, and nothing else happens in between.
C18_BodySend ==
    (Happened("opened") /\ Events("opened")[1].arg = JSNull) =>
      /\ Count("req.on") = 1
      /\ Count("req.end") = 1
      /\ Count("req.write") = IF HasPayload THEN 1 ELSE 0
      /\ IndexOfEvent("opened") < IndexOfEvent("req.on")
      /\ IndexOfEvent("req.on") < IndexOfEvent("req.end")
      /\ \A i \in 1..Len(log) :
           log[i].ev \in {"req.write", "req.end"} =>
             i > IndexOfEvent("req.on")
      /\ ~HasPayload => BodySteps = <<>>
      /\ HasPayload =>
           /\ BodySteps[Len(BodySteps)] = E("req.write", opts.data.v)
           /\ Len(BodySteps) =
                1 + (IF opts.verbose THEN NumLines(opts.data.v) ELSE 0)
           /\ \A i \in 1..(Len(BodySteps) - 1) :
                /\ BodySteps[i].ev = "stdout"
                /\ SubSeq(BodySteps[i].arg, 1, 2) = <<">", " ">>
           /\ (opts.verbose /\ opts.data.v = DATA_lines) =>
                BodySteps = <<E("stdout", <<">", " ", "a", "\n">>),
                              E("stdout", <<">", " ", "b", "\n">>),
                              E("req.write", <<"a", "\n", "b">>)>>

C18_Witness ==
    /\ Happened("req.end")
    /\ opts.verbose
    /\ opts.data = Str(DATA_lines)
    /\ Len(BodySteps) = 3

(***************************************************************************)
(* The completion callback.                                                *)
(***************************************************************************)
\* The signer called back and the transport delivered its events: the
\* open, a result, and the end of the body where one is streamed.
EventsDelivered ==
    /\ Happened("signed")
    /\ Happened("opened")
    /\ Happened("result")
    /\ Happened("res.on") => Happened("end")

\* C19: the completion callback is called at most once in every run, and
\* exactly once in every run in which the signer calls back and the
\* transport delivers the open, a result and, where the body is streamed,
\* its end.
C19_CallbackOnce ==
    /\ Count("cb") <= 1
    /\ EventsDelivered => Count("cb") = 1

(***************************************************************************)
(* The signer and the request.                                             *)
(***************************************************************************)
\* The request handed to the transport, and the headers handed to the
\* signer.
Dispatched == Events("open")[1].arg
HandedToSigner == Events("signRequest")[1].arg

AuthorizationLine ==
    <<">", " ">> \o TXT_authorization \o <<":", " ">> \o TXT_signature \o
    <<"\n">>

RequestCarriesSignature ==
    Happened("open") =>
      /\ Dispatched.headers = SignHeaders(HandedToSigner)
      /\ ObjHas(Dispatched.headers, TXT_authorization)
      /\ ObjGet(Dispatched.headers, TXT_authorization) = Str(TXT_signature)
      /\ \A i \in 1..Len(HandedToSigner) :
           ObjHas(Dispatched.headers, HandedToSigner[i][1])
      /\ Dispatched.headers = reqOpts.headers
      /\ Dispatched.path = reqOpts.path
      /\ Dispatched.func = methodFunc.v
      /\ (opts.verbose /\ Happened("req.end")) =>
           \E i \in 1..Len(ReqTraceWrites) :
             ReqTraceWrites[i] = AuthorizationLine

\* C20: the headers handed to the signer are the headers of the request
\* that is dispatched, so what the signer adds is in the request and in
\* its verbose trace; and once the signer has called back, no step changes
\* the method, the path or the headers.
C20_SignerSharesHeaders ==
    /\ []RequestCarriesSignature
    /\ [][Happened("signed") =>
            UNCHANGED <<method, methodFunc, reqOpts>>]_vars

C20_Witness ==
    /\ Happened("open")
    /\ opts.verbose
    /\ Happened("req.end")
    /\ Len(HandedToSigner) = 2
    /\ Len(Dispatched.headers) = 3

====
